---------------------------- MODULE Spec2Model ----------------------------
(***************************************************************************)
(* A model of src/lexical_analysis/advanced_analysis.py: the Form          *)
(* Normalizer, the Segmenter and the four engines built on them (Inventory *)
(* Builder, Correspondence Engine, Similarity Scorer with the cognate      *)
(* report, Positional Alignment Engine).                                   *)
(*                                                                         *)
(* A Python str is a sequence of code points; a code point is a TLA+       *)
(* string: an ASCII character stands for itself, any other code point is   *)
(* written "U+XXXX".  Python indices are 0-based and kept 0-based in the   *)
(* operators that model the code (Slice, segment_spans); text[i] of the    *)
(* code is text[i+1] here.                                                 *)
(***************************************************************************)
EXTENDS Integers, Sequences, FiniteSets, TLC

VARIABLES pc, form1, form2, result, data, idx, item,
          phoneme_inventories, correspondence_pairs,
          potential_cognates, reported, exported,
          proto_mixtec_entries, pm_to_daughter

vars == <<pc, form1, form2, result, data, idx, item,
          phoneme_inventories, correspondence_pairs,
          potential_cognates, reported, exported,
          proto_mixtec_entries, pm_to_daughter>>

(***************************************************************************)
(* Python values                                                           *)
(***************************************************************************)
\* Python's None (a JSON null form); "None" is no code point of the model.
None == <<"None">>

\* A slip: the guard written as `text == ''`, which lets a None through.
Falsy_empty_only(text) == text = <<>>

\* `not text` of the code: None and the empty string are falsy.
Falsy(text) == text = None \/ text = <<>>

Min(a, b) == IF a < b THEN a ELSE b

\* text[i:j] for 0 <= i: the slice stops at the end of the text.
Slice(text, i, j) == SubSeq(text, i + 1, Min(j, Len(text)))

\* All strings over the alphabet A of length at most n.
Strings(A, n) == UNION {[1..m -> A] : m \in 0..n}

(***************************************************************************)
(* Character classes of the code points the model uses                     *)
(***************************************************************************)
\* str.isalpha(): general category L*.  U+00F1 is n-tilde (in the table).
LowerLetters == {"a", "e", "i", "o", "u", "b", "c", "d", "g", "h", "j", "k",
                 "m", "n", "p", "q", "s", "t", "x", "y", "z", "U+00F1"}
UpperLetters == {"A", "D", "N", "S", "T"}
\* U+0294 glottal stop (Lo), U+02BC modifier apostrophe (Lm), U+02C0 (Lm).
isalpha(c) == c \in LowerLetters \cup UpperLetters \cup {"U+0294", "U+02BC", "U+02C0"}

\* The markers of line 58: "'" U+0294 U+02BC U+02C0.
GlottalMarkers == {"'", "U+0294", "U+02BC", "U+02C0"}

\* unicodedata.category(c).startswith('M'): combining acute, combining tilde.
IsMark(c) == c \in {"U+0301", "U+0303"}

\* \s of re and str.strip(): space, tab, newline.
IsSpace(c) == c \in {" ", "U+0009", "U+000A"}

\* str.lower() on one code point.
LowerChar(c) ==
  CASE c = "A" -> "a"
    [] c = "D" -> "d"
    [] c = "N" -> "n"
    [] c = "S" -> "s"
    [] c = "T" -> "t"
    [] OTHER -> c

\* str.lower() on a string of the model's code points (each maps to one).
Lower(text) == [n \in 1..Len(text) |-> LowerChar(text[n])]

(***************************************************************************)
(* normalize_form, lines 31-41                                             *)
(***************************************************************************)
\* The index of the first ")" at Python index >= i, or -1.
RECURSIVE FindClose(_, _)
FindClose(text, i) ==
  IF i >= Len(text) THEN -1
  ELSE IF text[i + 1] = ")" THEN i
  ELSE FindClose(text, i + 1)

\* re.sub(r'\([^)]*\)', '', text): leftmost non-overlapping matches; a match
\* starts at a "(" that has a ")" somewhere after it and ends at the first one.
RECURSIVE RemoveParens(_, _)
RemoveParens(text, i) ==
  IF i >= Len(text) THEN <<>>
  ELSE IF text[i + 1] = "(" /\ FindClose(text, i + 1) >= 0
       THEN RemoveParens(text, FindClose(text, i + 1) + 1)
       ELSE <<text[i + 1]>> \o RemoveParens(text, i + 1)

\* A slip: only a leading reconstruction asterisk removed (text.lstrip('*')).
RECURSIVE RemoveAsterisks_leading(_)
RemoveAsterisks_leading(text) ==
  IF text # <<>> /\ Head(text) = "*"
  THEN RemoveAsterisks_leading(Tail(text))
  ELSE text

\* re.sub(r'\*', '', text)
RemoveAsterisks(text) == SelectSeq(text, LAMBDA c : c # "*")

\* re.sub(r'\s+', ' ', text): every maximal run of whitespace becomes one space.
RECURSIVE CollapseSpace(_, _)
CollapseSpace(text, i) ==
  IF i >= Len(text) THEN <<>>
  ELSE IF IsSpace(text[i + 1])
       THEN IF i > 0 /\ IsSpace(text[i])
            THEN CollapseSpace(text, i + 1)
            ELSE <<" ">> \o CollapseSpace(text, i + 1)
       ELSE <<text[i + 1]>> \o CollapseSpace(text, i + 1)

\* str.strip(): leading and trailing whitespace removed.
RECURSIVE LStrip(_)
LStrip(text) ==
  IF text # <<>> /\ IsSpace(Head(text)) THEN LStrip(Tail(text)) ELSE text

RECURSIVE RStrip(_)
RStrip(text) ==
  IF text # <<>> /\ IsSpace(text[Len(text)])
  THEN RStrip(SubSeq(text, 1, Len(text) - 1))
  ELSE text

Strip(text) == RStrip(LStrip(text))

\* A plausible slip: whitespace normalised before the annotations are removed.
normalize_form_ws_first(text) ==
  IF Falsy(text) THEN <<>>
  ELSE RemoveAsterisks(RemoveParens(Strip(CollapseSpace(text, 0)), 0))

normalize_form(text) ==
  IF Falsy(text) THEN <<>>
  ELSE Strip(CollapseSpace(RemoveAsterisks(RemoveParens(text, 0)), 0))

(***************************************************************************)
(* extract_phonemes, lines 43-84                                           *)
(***************************************************************************)
\* A slip: the h of 'nh' lost, which leaves the entry 'n' in front of 'nz'
\* and 'ny'.
digraphs_n_for_nh ==
  << <<"t", "s">>, <<"t", "z">>, <<"c", "h">>, <<"d", "z">>, <<"g", "u">>,
     <<"q", "u">>, <<"h", "u">>, <<"n", "g">>, <<"U+00F1", "h">>, <<"x", "h">>,
     <<"n", "d">>, <<"m", "b">>, <<"n">>, <<"t", "h">>, <<"p", "h">>,
     <<"k", "h">>, <<"t", "x">>, <<"d", "j">>, <<"n", "z">>, <<"n", "y">> >>

\* The table of lines 52-53, in its order.
digraphs ==
  << <<"t", "s">>, <<"t", "z">>, <<"c", "h">>, <<"d", "z">>, <<"g", "u">>,
     <<"q", "u">>, <<"h", "u">>, <<"n", "g">>, <<"U+00F1", "h">>, <<"x", "h">>,
     <<"n", "d">>, <<"m", "b">>, <<"n", "h">>, <<"t", "h">>, <<"p", "h">>,
     <<"k", "h">>, <<"t", "x">>, <<"d", "j">>, <<"n", "z">>, <<"n", "y">> >>

\* for dg in digraphs: if text[i:i+len(dg)].lower() == dg: ... break
\* The table index of the first entry that matches at i, from entry n on; 0: none.
RECURSIVE found_digraph(_, _, _)
found_digraph(text, i, n) ==
  IF n > Len(digraphs) THEN 0
  ELSE IF Lower(Slice(text, i, i + Len(digraphs[n]))) = digraphs[n] THEN n
  ELSE found_digraph(text, i, n + 1)

\* A slip: the diacritics loop left out, so a mark is left for the next round.
absorb_marks_none(text, end) == end

\* while end < len(text) and category(text[end]).startswith('M'): end += 1
RECURSIVE absorb_marks(_, _)
absorb_marks(text, end) ==
  IF end < Len(text) /\ IsMark(text[end + 1])
  THEN absorb_marks(text, end + 1)
  ELSE end

\* Line 58: a character that is skipped.
Skipped(c) == ~isalpha(c) /\ c \notin GlottalMarkers

\* A slip: the digraph test left out (every letter its own segment).
first_end_single(text, i) == i + 1

\* The end of the grapheme at i before the diacritics: lines 64-67 and 77-78.
first_end(text, i) ==
  LET dg == found_digraph(text, i, 1)
  IN  IF dg # 0 THEN i + Len(digraphs[dg]) ELSE i + 1

\* The while loop of lines 56-82 from cursor i on: the <<i, end>> of every
\* segments.append(text[i:end].lower()), in order.
RECURSIVE segment_spans(_, _)
segment_spans(text, i) ==
  IF i >= Len(text) THEN <<>>
  ELSE IF Skipped(text[i + 1]) THEN segment_spans(text, i + 1)
  ELSE LET end == absorb_marks(text, first_end(text, i))
       IN  <<<<i, end>>>> \o segment_spans(text, end)

extract_phonemes(text) ==
  IF Falsy(text) THEN <<>>
  ELSE LET t  == normalize_form(text)
           sp == segment_spans(t, 0)
       IN  [n \in 1..Len(sp) |-> Lower(Slice(t, sp[n][1], sp[n][2]))]

\* The two functions can raise in one place only: re.sub (line 36) raises
\* TypeError when its string argument is not a str, that is when a None gets
\* past the guard of line 33.  The indexings text[i] (line 58) and text[end]
\* (lines 68, 79) are guarded by i < len(text) and end < len(text), and a
\* slice never raises.
normalize_form_raises(text) == ~Falsy(text) /\ text = None

\* Line 48 is reached when the guard of line 45 is passed; the exception of
\* normalize_form propagates.
extract_phonemes_raises(text) == ~Falsy(text) /\ normalize_form_raises(text)

(***************************************************************************)
(* phonetic_similarity, lines 172-186                                      *)
(***************************************************************************)
RECURSIVE GCD(_, _)
GCD(a, b) == IF b = 0 THEN a ELSE GCD(b, a % b)

\* The float i / u for 0 <= i <= u, u > 0, as the fraction in lowest terms:
\* two of these quotients are equal floats exactly when they are equal
\* rationals (the operands are far below 2^26).
Quotient(i, u) == <<i \div GCD(i, u), u \div GCD(i, u)>>

\* The 0 of lines 175, 181 and 186 (0 == 0.0 in Python).
Zero == <<0, 1>>

\* set(extract_phonemes(form))
SegmentSet(form) ==
  LET segs == extract_phonemes(form) IN {segs[n] : n \in 1..Len(segs)}

\* A slip: the union taken as the sum of the two sizes.
phonetic_similarity_sum(f1, f2) ==
  IF Falsy(f1) \/ Falsy(f2) THEN Zero
  ELSE LET seg1 == SegmentSet(f1)
           seg2 == SegmentSet(f2)
       IN  IF seg1 = {} \/ seg2 = {} THEN Zero
           ELSE Quotient(Cardinality(seg1 \cap seg2),
                         Cardinality(seg1) + Cardinality(seg2))

\* A slip: the segment lists not collapsed to sets before they are counted.
phonetic_similarity_lists(f1, f2) ==
  IF Falsy(f1) \/ Falsy(f2) THEN Zero
  ELSE LET seg1 == extract_phonemes(f1)
           seg2 == extract_phonemes(f2)
           both == Cardinality({n \in 1..Len(seg1) :
                                  \E m \in 1..Len(seg2) : seg1[n] = seg2[m]})
       IN  IF seg1 = <<>> \/ seg2 = <<>> THEN Zero
           ELSE Quotient(both, Len(seg1) + Len(seg2) - both)

\* A slip: the shared segments divided by the size of the first set only.
phonetic_similarity_first(f1, f2) ==
  IF Falsy(f1) \/ Falsy(f2) THEN Zero
  ELSE LET seg1 == SegmentSet(f1)
           seg2 == SegmentSet(f2)
       IN  IF seg1 = {} \/ seg2 = {} THEN Zero
           ELSE Quotient(Cardinality(seg1 \cap seg2), Cardinality(seg1))

phonetic_similarity(f1, f2) ==
  IF Falsy(f1) \/ Falsy(f2) THEN Zero
  ELSE LET seg1 == SegmentSet(f1)
           seg2 == SegmentSet(f2)
           intersection == Cardinality(seg1 \cap seg2)
           union == Cardinality(seg1 \cup seg2)
       IN  IF seg1 = {} \/ seg2 = {} THEN Zero
           ELSE IF union > 0 THEN Quotient(intersection, union) ELSE Zero

(***************************************************************************)
(* The state before any phase has run                                      *)
(***************************************************************************)
\* An empty dict / Counter: the function with no keys.
EmptyDict == <<>>

NoData ==
  /\ data = <<>>
  /\ idx = 0
  /\ item = 0

NoTables ==
  /\ phoneme_inventories = EmptyDict
  /\ correspondence_pairs = EmptyDict
  /\ potential_cognates = <<>>
  /\ reported = <<>>
  /\ exported = <<>>
  /\ proto_mixtec_entries = <<>>
  /\ pm_to_daughter = EmptyDict

dataVars == <<data, idx, item>>
tableVars == <<phoneme_inventories, correspondence_pairs, potential_cognates,
               reported, exported, proto_mixtec_entries, pm_to_daughter>>

(***************************************************************************)
(* normalize_form applied to one raw transcription                         *)
(***************************************************************************)
NormMaxLen == 6
NormAlphabet == {"(", ")", "*", " ", "U+0009", "a"}

InitNormalize ==
  /\ pc = "normalize"
  /\ form1 \in Strings(NormAlphabet, NormMaxLen)
  /\ form2 = <<>>
  /\ result = <<>>
  /\ NoData
  /\ NoTables

Normalize ==
  /\ pc = "normalize"
  /\ IF normalize_form_raises(form1)
     THEN pc' = "error" /\ result' = result
     ELSE pc' = "done" /\ result' = normalize_form(form1)
  /\ UNCHANGED <<form1, form2, dataVars, tableVars>>

SpecNormalize == InitNormalize /\ [][Normalize]_vars

\* C6: normalize_form is idempotent: normalising the normalised string
\* changes nothing, whatever parentheses, asterisks and blanks the raw
\* string holds.
C6_Idempotent == pc = "done" => normalize_form(result) = result

\* '((a)a)' has been normalised: the match '((a)' is removed, 'a)' stays.
C6_Witness ==
  /\ pc = "done"
  /\ form1 = <<"(", "(", "a", ")", "a", ")">>
  /\ result = <<"a", ")">>

(***************************************************************************)
(* normalize_form applied to an annotated transcription                    *)
(***************************************************************************)
AnnMaxLen == 5
AnnAlphabet == {"(", ")", "*", "1", ",", ";", "/", "-", " ", "a"}

InitAnnotated ==
  /\ pc = "normalize"
  /\ form1 \in Strings(AnnAlphabet, AnnMaxLen)
  /\ form2 = <<>>
  /\ result = <<>>
  /\ NoData
  /\ NoTables

SpecAnnotated == InitAnnotated /\ [][Normalize]_vars

ToneDigits == {"0", "1", "2", "3", "4", "5", "6", "7", "8", "9"}
Separators == {",", ";", "/", "-"}

\* The text holds a "(" with a ")" somewhere after it.
HasGroup(text) ==
  \E i, j \in 1..Len(text) : i < j /\ text[i] = "(" /\ text[j] = ")"

Has(text, S) == \E n \in 1..Len(text) : text[n] \in S

\* The tone digits and separators of the text, in order.
DigitsAndSeparators(text) ==
  SelectSeq(text, LAMBDA c : c \in ToneDigits \cup Separators)

\* The overview's reading of the Form Normalizer: the returned string holds no
\* parenthesised group, no asterisk, no tone digit and no separator.
C12_Claim ==
  pc = "done" =>
    /\ ~HasGroup(result)
    /\ ~Has(result, {"*"})
    /\ ~Has(result, ToneDigits)
    /\ ~Has(result, Separators)

\* C12: the string returned by normalize_form holds no parenthesised group
\* and no reconstruction asterisk; the tone digits and the separators (comma,
\* semicolon, slash, hyphen) that stand outside the removed groups are all
\* kept, in their order.
C12_Stripped ==
  pc = "done" =>
    /\ ~HasGroup(result)
    /\ ~Has(result, {"*"})
    /\ DigitsAndSeparators(result) = DigitsAndSeparators(RemoveParens(form1, 0))
    /\ ~Has(form1, {"("}) =>
         DigitsAndSeparators(result) = DigitsAndSeparators(form1)

\* '()*1' is normalised to '1': the group and the asterisk are gone, the tone
\* digit is still there.
C12_Witness ==
  /\ pc = "done"
  /\ form1 = <<"(", ")", "*", "1">>
  /\ result = <<"1">>

(***************************************************************************)
(* extract_phonemes applied to one raw transcription                       *)
(***************************************************************************)
SegMaxLen == 4
SegAlphabet == {"t", "s", "a", "T", "S", "h", "U+0301", "1", "*"}

InitSegment ==
  /\ pc = "segment"
  /\ form1 \in Strings(SegAlphabet, SegMaxLen)
  /\ form2 = <<>>
  /\ result = <<>>
  /\ NoData
  /\ NoTables

Segment ==
  /\ pc = "segment"
  /\ IF extract_phonemes_raises(form1)
     THEN pc' = "error" /\ result' = result
     ELSE pc' = "done" /\ result' = extract_phonemes(form1)
  /\ UNCHANGED <<form1, form2, dataVars, tableVars>>

SpecSegment == InitSegment /\ [][Segment]_vars

\* C8: wherever the normalised form holds t, s, a in a row (any case), the
\* Segmenter emits the t and the s as the one segment 'ts', and the next
\* segment starts at the a.
C8_TsaDigraph ==
  pc = "done" =>
    LET t  == normalize_form(form1)
        sp == segment_spans(t, 0)
    IN  /\ Len(sp) = Len(result)
        /\ \A i \in 0..(Len(t) - 3) :
             Lower(Slice(t, i, i + 3)) = <<"t", "s", "a">> =>
               \E n \in 1..(Len(result) - 1) :
                 /\ sp[n] = <<i, i + 2>>
                 /\ result[n] = <<"t", "s">>
                 /\ sp[n + 1][1] = i + 2
                 /\ result[n + 1][1] = "a"

\* 'T*sa' normalises to 'Tsa' and is segmented as 'ts', 'a'.
C8_Witness ==
  /\ pc = "done"
  /\ form1 = <<"T", "*", "s", "a">>
  /\ result = << <<"t", "s">>, <<"a">> >>

\* C9: a base character or matched digraph followed by combining marks is
\* emitted with the whole run of marks as one lower-cased segment, and no
\* segment starts with a combining mark.
C9_MarksAbsorbed ==
  pc = "done" =>
    LET t  == normalize_form(form1)
        sp == segment_spans(t, 0)
    IN  /\ Len(sp) = Len(result)
        /\ \A n \in 1..Len(result) :
             /\ result[n] = Lower(Slice(t, sp[n][1], sp[n][2]))
             /\ ~IsMark(result[n][1])
             /\ sp[n][2] = Len(t) \/ ~IsMark(t[sp[n][2] + 1])
        \* q: the Python index of a letter or glottal marker that a mark follows
        /\ \A q \in 0..(Len(t) - 2) :
             ~Skipped(t[q + 1]) /\ IsMark(t[q + 2]) =>
               \E n \in 1..Len(result) :
                 /\ sp[n][1] \in {q - 1, q}
                 /\ sp[n][2] > q + 1
                 /\ \A j \in (q + 1)..(sp[n][2] - 1) : IsMark(t[j + 1])

\* 'Ts' + U+0301 + 'a': the digraph takes the mark, lower-cased.
C9_Witness ==
  /\ pc = "done"
  /\ form1 = <<"T", "s", "U+0301", "a">>
  /\ result = << <<"t", "s", "U+0301">>, <<"a">> >>

(***************************************************************************)
(* extract_phonemes applied to the letters of the digraph table            *)
(***************************************************************************)
DgMaxLen == 2
\* Every letter of the table, one capital and one combining mark.
DgAlphabet ==
  UNION {{digraphs[n][k] : k \in 1..Len(digraphs[n])} : n \in 1..Len(digraphs)}
    \cup {"T", "U+0301"}

InitDigraph ==
  /\ pc = "segment"
  /\ form1 \in Strings(DgAlphabet, DgMaxLen)
  /\ form2 = <<>>
  /\ result = <<>>
  /\ NoData
  /\ NoTables

SpecDigraph == InitDigraph /\ [][Segment]_vars

\* The table entries that match the characters at cursor i.
Matches(text, i) ==
  {n \in 1..Len(digraphs) :
     Lower(Slice(text, i, i + Len(digraphs[n]))) = digraphs[n]}

\* C14: at every cursor position at most one table entry matches the
\* upcoming characters; so whichever matching entry a reordered table would
\* find first, the segment ends where the code ends it, and the entry the code
\* takes is a longest one among the matching entries.
C14_OneMatch ==
  pc = "done" =>
    LET t  == normalize_form(form1)
        sp == segment_spans(t, 0)
    IN  /\ Len(sp) = Len(result)
        /\ \A i \in 0..(Len(t) - 1) : Cardinality(Matches(t, i)) <= 1
        /\ \A n \in 1..Len(sp) :
             LET i == sp[n][1]
             IN  /\ \A m \in Matches(t, i) :
                      /\ sp[n][2] = absorb_marks(t, i + Len(digraphs[m]))
                      /\ result[n] = Lower(Slice(t, i, sp[n][2]))
                      /\ Len(digraphs[m]) <= Len(digraphs[found_digraph(t, i, 1)])
                 /\ Matches(t, i) = {} =>
                      /\ found_digraph(t, i, 1) = 0
                      /\ sp[n][2] = absorb_marks(t, i + 1)

\* 'Th': five entries start with t, only 'th' (the 14th) matches at the T.
C14_Witness ==
  /\ pc = "done"
  /\ form1 = <<"T", "h">>
  /\ Matches(form1, 0) = {14}
  /\ result = << <<"t", "h">> >>

(***************************************************************************)
(* Either function applied to a missing, blank or annotated transcription  *)
(***************************************************************************)
BlankMaxLen == 4
BlankAlphabet == {" ", "U+0009", "1", "-", "(", "a", "U+0301"}

\* pc tells which of the two functions is called on form1.
InitBlank ==
  /\ pc \in {"normalize", "segment"}
  /\ form1 \in Strings(BlankAlphabet, BlankMaxLen) \cup {None}
  /\ form2 = <<>>
  /\ result = <<>>
  /\ NoData
  /\ NoTables

NextBlank == Normalize \/ Segment

SpecBlank == InitBlank /\ [][NextBlank]_vars

\* None, '' or whitespace only.
Blank(text) == text = None \/ \A n \in 1..Len(text) : IsSpace(text[n])

\* C11: neither normalize_form nor extract_phonemes ends in an error, whatever
\* the input (None included); on a missing, empty or whitespace-only input
\* normalize_form returns '' and extract_phonemes returns [] (both <<>> here);
\* a character that is neither a letter nor a glottal marker is in no segment.
C11_NoError ==
  /\ pc # "error"
  /\ pc = "done" /\ Blank(form1) => result = <<>>
  /\ LET segs == extract_phonemes(form1)
     IN  \A n \in 1..Len(segs) : \A k \in 1..Len(segs[n]) :
           ~Skipped(segs[n][k]) \/ IsMark(segs[n][k])

\* A blank followed by a tab has been processed: nothing is returned.
C11_Witness ==
  /\ pc = "done"
  /\ form1 = <<" ", "U+0009">>
  /\ result = <<>>

(***************************************************************************)
(* phonetic_similarity applied to two raw transcriptions                   *)
(***************************************************************************)
SimMaxLen == 3
SimAlphabet == {"t", "s", "1"}

InitSimilarity ==
  /\ pc = "score"
  /\ form1 \in Strings(SimAlphabet, SimMaxLen) \cup {None}
  /\ form2 \in Strings(SimAlphabet, SimMaxLen) \cup {None}
  /\ result = <<>>
  /\ NoData
  /\ NoTables

Score ==
  /\ pc = "score"
  /\ result' = phonetic_similarity(form1, form2)
  /\ pc' = "done"
  /\ UNCHANGED <<form1, form2, dataVars, tableVars>>

SpecSimilarity == InitSimilarity /\ [][Score]_vars

\* C2 as stated: phonetic_similarity(A, A) = 1 for every non-empty string A.
C2_Claim ==
  pc = "done" /\ form1 = form2 /\ ~Falsy(form1) => result = <<1, 1>>

\* C2 as amended: phonetic_similarity(A, A) = 1 for every string A that the
\* Segmenter gives at least one segment.
C2_SelfSimilarity ==
  pc = "done" /\ form1 = form2 /\ extract_phonemes(form1) # <<>>
    => result = <<1, 1>>

\* 'tst' scored against itself.
C2_Witness ==
  /\ pc = "done"
  /\ form1 = <<"t", "s", "t">>
  /\ form2 = form1
  /\ result = <<1, 1>>

\* C5: the score is a defined value in [0,1], equal to the number of distinct
\* segments the two strings share over the number of distinct segments of
\* either, and 0 when a string is missing, empty or without segments.
C5_Jaccard ==
  pc = "done" =>
    LET s1 == extract_phonemes(form1)
        s2 == extract_phonemes(form2)
        in1(x) == \E n \in 1..Len(s1) : s1[n] = x
        in2(x) == \E n \in 1..Len(s2) : s2[n] = x
        either == {s1[n] : n \in 1..Len(s1)} \cup {s2[n] : n \in 1..Len(s2)}
        shared == {x \in either : in1(x) /\ in2(x)}
    IN  /\ result[1] \in Nat /\ result[2] \in Nat \ {0}
        /\ result[1] <= result[2]
        /\ IF Falsy(form1) \/ Falsy(form2) \/ s1 = <<>> \/ s2 = <<>>
           THEN result = Zero
           ELSE result[1] * Cardinality(either) = Cardinality(shared) * result[2]

\* 'tss' against 'tst': {ts, s} and {ts, t} share one segment of three.
C5_Witness ==
  /\ pc = "done"
  /\ form1 = <<"t", "s", "s">>
  /\ form2 = <<"t", "s", "t">>
  /\ result = <<1, 3>>

\* C13: the score is symmetric: the value computed for (A, B) is the value
\* the function gives for (B, A), for strings and for a missing A or B.
C13_Symmetric ==
  pc = "done" => result = phonetic_similarity(form2, form1)

\* 't' against 'tst': {t} and {ts, t}, one shared segment of two; the pair
\* in the other order is scored in another behaviour, with the same value.
C13_Witness ==
  /\ pc = "done"
  /\ form1 = <<"t">>
  /\ form2 = <<"t", "s", "t">>
  /\ result = <<1, 2>>

(***************************************************************************)
(* Entries, dicts and Counters                                             *)
(***************************************************************************)
\* An entry of data['entries'] is [gloss |-> g, forms |-> f]; f is a dict:
\* a function whose DOMAIN holds the language keys the entry has.  A form is
\* a string or None.  Absent marks a key left out when a dict is built.
Absent == <<"absent">>

MakeForms(choice) ==
  [l \in {x \in DOMAIN choice : choice[x] # Absent} |-> choice[l]]

\* Counter[k]: 0 for a key the Counter does not hold.
Get(counter, k) == IF k \in DOMAIN counter THEN counter[k] ELSE 0

\* counter[k] += 1
Incr(counter, k) ==
  [x \in DOMAIN counter \cup {k} |->
     Get(counter, x) + (IF x = k THEN 1 ELSE 0)]

\* defaultdict(Counter)[k]: the Counter under k, empty when k is new.
GetCounter(dict, k) == IF k \in DOMAIN dict THEN dict[k] ELSE EmptyDict

\* dict[k1][k2] += 1 on a defaultdict(Counter)
Incr2(dict, k1, k2) ==
  [x \in DOMAIN dict \cup {k1} |->
     IF x = k1 THEN Incr(GetCounter(dict, k1), k2) ELSE dict[x]]

\* The Python index of the first "," of text at index >= i, or -1.
RECURSIVE FindComma(_, _)
FindComma(text, i) ==
  IF i >= Len(text) THEN -1
  ELSE IF text[i + 1] = "," THEN i
  ELSE FindComma(text, i + 1)

\* form.split(','): the pieces between the commas, at least one.
RECURSIVE split(_)
split(form) ==
  LET c == FindComma(form, 0)
  IN  IF c < 0 THEN <<form>>
      ELSE <<Slice(form, 0, c)>> \o split(Slice(form, c + 1, Len(form)))

(***************************************************************************)
(* The Inventory Builder, lines 87-96                                      *)
(***************************************************************************)
\* for seg in segments: phoneme_inventories[lang][seg] += 1, from segment n on.
RECURSIVE AddSegments(_, _, _, _)
AddSegments(inv, lang, segments, n) ==
  IF n > Len(segments) THEN inv
  ELSE AddSegments(Incr2(inv, lang, segments[n]), lang, segments, n + 1)

\* for variant in form.split(','): ..., from variant n on.
RECURSIVE AddVariants(_, _, _, _)
AddVariants(inv, lang, variants, n) ==
  IF n > Len(variants) THEN inv
  ELSE AddVariants(AddSegments(inv, lang, extract_phonemes(variants[n]), 1),
                   lang, variants, n + 1)

\* A slip: only the first comma-variant is counted.
InventoryAddForm_first(inv, lang, form) ==
  IF Falsy(form) THEN inv
  ELSE AddSegments(inv, lang, extract_phonemes(split(form)[1]), 1)

\* The body of `for lang, form in entry['forms'].items()`, lines 91-96.
InventoryAddForm(inv, lang, form) ==
  IF Falsy(form) THEN inv
  ELSE AddVariants(inv, lang, split(form), 1)

\* entry['forms'].items(): the keys of the dict in its (JSON) order, taken
\* here as the order of LangOrder.
LangOrder == <<"otomian", "trique">>
items(forms) == SelectSeq(LangOrder, LAMBDA l : l \in DOMAIN forms)

InvMaxEntries == 2
InvEntries ==
  {[gloss |-> "water",
    forms |-> MakeForms([otomian |-> o, trique |-> t])] :
     o \in {Absent, None, <<"t", "s", "a">>, <<"a", ",", "t", "s", "a">>},
     t \in {Absent, <<>>, <<"T", "s", "a">>, <<"(", "a", ",", "s", ")">>}}

\* data holds the entries the outer loop has reached; the last one is the
\* entry being processed, item counts the forms of it already counted.
InitInventory ==
  /\ pc = "inventory"
  /\ form1 = <<>>
  /\ form2 = <<>>
  /\ result = <<>>
  /\ NoData
  /\ NoTables

\* The outer loop takes the next entry.
InventoryNextEntry ==
  /\ pc = "inventory"
  /\ Len(data) < InvMaxEntries
  /\ idx = Len(data)
  /\ \E e \in InvEntries :
       /\ data' = Append(data, e)
       /\ item' = 0
       /\ idx' = IF items(e.forms) = <<>> THEN idx + 1 ELSE idx
  /\ UNCHANGED <<pc, form1, form2, result, tableVars>>

\* The inner loop handles one (lang, form) of the current entry.
InventoryForm ==
  /\ pc = "inventory"
  /\ idx < Len(data)
  /\ LET forms == data[idx + 1].forms
         lang  == items(forms)[item + 1]
     IN  /\ phoneme_inventories' =
              InventoryAddForm(phoneme_inventories, lang, forms[lang])
         /\ item' = item + 1
         /\ idx' = IF item + 1 = Len(items(forms)) THEN idx + 1 ELSE idx
  /\ UNCHANGED <<pc, form1, form2, result, data, correspondence_pairs,
                 potential_cognates, reported, exported,
                 proto_mixtec_entries, pm_to_daughter>>

NextInventory == InventoryNextEntry \/ InventoryForm

SpecInventory == InitInventory /\ [][NextInventory]_vars

\* The segments of every comma-variant of a form, as <<variant, position>>
\* places, for a form that is counted.
Places(form) ==
  IF Falsy(form) THEN {}
  ELSE {p \in (1..Len(split(form))) \X (1..Len(form)) :
          p[2] <= Len(extract_phonemes(split(form)[p[1]]))}

SegmentAt(form, p) == extract_phonemes(split(form)[p[1]])[p[2]]

\* The occurrences of segment s in the forms of language lang in data.
Occurrences(lang, s) ==
  {ep \in UNION {{e} \X (IF lang \in DOMAIN data[e].forms
                         THEN Places(data[e].forms[lang]) ELSE {}) :
                 e \in 1..Len(data)} :
     SegmentAt(data[ep[1]].forms[lang], ep[2]) = s}

\* The segments that occur in the forms of language lang in data.
SegmentsOf(lang) ==
  UNION {{SegmentAt(data[e].forms[lang], p) : p \in Places(data[e].forms[lang])} :
         e \in {x \in 1..Len(data) : lang \in DOMAIN data[x].forms}}

\* Once the entries read so far are done, every count is the number of
\* occurrences, and a language without a non-empty form has no inventory.
C10_Final ==
  idx = Len(data) =>
    \A lang \in {LangOrder[n] : n \in 1..Len(LangOrder)}
                  \cup DOMAIN phoneme_inventories :
      LET inv == GetCounter(phoneme_inventories, lang)
      IN  /\ \A s \in DOMAIN inv \cup SegmentsOf(lang) :
               Get(inv, s) = Cardinality(Occurrences(lang, s))
          /\ (\A e \in 1..Len(data) :
                lang \notin DOMAIN data[e].forms \/ Falsy(data[e].forms[lang]))
               => lang \notin DOMAIN phoneme_inventories

\* A step keeps every language and segment it had with a count no smaller,
\* and the step that handles a form changes no other language's inventory.
C10_Step ==
  /\ \A lang \in DOMAIN phoneme_inventories :
       /\ lang \in DOMAIN phoneme_inventories'
       /\ \A s \in DOMAIN phoneme_inventories[lang] :
            /\ s \in DOMAIN phoneme_inventories'[lang]
            /\ phoneme_inventories'[lang][s] >= phoneme_inventories[lang][s]
  /\ item' = item + 1 =>
       \A lang \in DOMAIN phoneme_inventories' :
         lang # items(data[idx + 1].forms)[item + 1] =>
           /\ lang \in DOMAIN phoneme_inventories
           /\ phoneme_inventories'[lang] = phoneme_inventories[lang]

\* C10: no count of any inventory ever decreases, the step that handles a
\* form of language L leaves every other language's inventory as it was,
\* and once every entry is processed the count of s for L is the number of
\* occurrences of s in the Segmenter outputs of all comma-variants of L's
\* forms; a language without a (non-empty) form has no inventory.
C10_Inventory == [](C10_Final) /\ [][C10_Step]_vars

\* Two entries are done: otomian 'a,tsa' and 'tsa' give a 3 times and ts
\* twice; trique had no form and has no inventory.
C10_Witness ==
  /\ pc = "inventory"
  /\ Len(data) = 2
  /\ idx = 2
  /\ "trique" \notin DOMAIN phoneme_inventories
  /\ "otomian" \in DOMAIN phoneme_inventories
  /\ Get(phoneme_inventories["otomian"], <<"a">>) = 3
  /\ Get(phoneme_inventories["otomian"], <<"t", "s">>) = 2

(***************************************************************************)
(* The Correspondence Engine, lines 121-144                                *)
(***************************************************************************)
otomanguean_langs ==
  <<"otomian", "trique", "proto_mixtec", "Unnamed: 5",
    "zapotec_isthmus", "Unnamed: 7", "mazahua">>

\* A slip: the whole form segmented, not its first comma-variant.
first_segments_whole(form) == extract_phonemes(form)

\* extract_phonemes(forms[lang].split(',')[0]), line 135.
first_segments(form) == extract_phonemes(split(form)[1])

\* initial_segments after the loop of lines 133-137.
initial_segments(forms) ==
  [lang \in {l \in {otomanguean_langs[n] : n \in 1..Len(otomanguean_langs)} :
               /\ l \in DOMAIN forms
               /\ ~Falsy(forms[l])
               /\ first_segments(forms[l]) # <<>>} |->
     first_segments(forms[lang])[1]]

\* itertools.combinations(otomanguean_langs, 2): each pair once, in roster order.
combinations ==
  {<<otomanguean_langs[p[1]], otomanguean_langs[p[2]]>> :
     p \in {q \in (1..Len(otomanguean_langs)) \X (1..Len(otomanguean_langs)) :
              q[1] < q[2]}}

\* The loop of lines 140-144 over one entry: every pair of combinations is
\* visited once, so the increments do not depend on the order of the visits.
CorrespondenceAddEntry(pairs, forms) ==
  LET init == initial_segments(forms)
      hit  == {p \in combinations : p[1] \in DOMAIN init /\ p[2] \in DOMAIN init}
  IN  [p \in DOMAIN pairs \cup hit |->
         IF p \in hit
         THEN Incr(GetCounter(pairs, p), <<init[p[1]], init[p[2]]>>)
         ELSE pairs[p]]

CorrMaxEntries == 2
CorrEntries ==
  {[gloss |-> "water",
    forms |-> MakeForms([otomian |-> o, trique |-> t, mazahua |-> m])] :
     o \in {Absent, <<"t", "s", "a">>, <<"n", "d", "a">>, <<",", "a">>},
     t \in {<<>>, <<"t", "s", "i">>, <<"n", "d", "a">>, <<"(", "a", ")">>},
     m \in {Absent, <<"N", "d", "a", ",", "a">>}}

InitCorrespondence ==
  /\ pc = "correspondence"
  /\ form1 = <<>>
  /\ form2 = <<>>
  /\ result = <<>>
  /\ NoData
  /\ NoTables

\* One round of the loop of line 127.
CorrespondenceEntry ==
  /\ pc = "correspondence"
  /\ Len(data) < CorrMaxEntries
  /\ \E e \in CorrEntries :
       /\ data' = Append(data, e)
       /\ correspondence_pairs' =
            CorrespondenceAddEntry(correspondence_pairs, e.forms)
  /\ idx' = idx + 1
  /\ UNCHANGED <<pc, form1, form2, result, item, phoneme_inventories,
                 potential_cognates, reported, exported,
                 proto_mixtec_entries, pm_to_daughter>>

SpecCorrespondence == InitCorrespondence /\ [][CorrespondenceEntry]_vars

\* The first comma-variant of a form: what stands before its first comma.
FirstVariant(form) ==
  IF \E n \in 1..Len(form) : form[n] = ","
  THEN SubSeq(form, 1, (CHOOSE n \in 1..Len(form) :
                          /\ form[n] = ","
                          /\ \A m \in 1..(n - 1) : form[m] # ",") - 1)
  ELSE form

\* The languages of an entry that have an initial segment, with it: a
\* language with a non-empty form whose first variant has a segment.
Initials(forms) ==
  [lang \in {l \in DOMAIN forms :
               /\ ~Falsy(forms[l])
               /\ extract_phonemes(FirstVariant(forms[l])) # <<>>} |->
     extract_phonemes(FirstVariant(forms[lang]))[1]]

\* C1: after any prefix of the entries, for every roster pair (A, B) and
\* every segment pair (a, b), the stored count is the number of processed
\* entries where A's initial segment is a and B's is b; an entry where A or
\* B has no form or no segment in its first variant counts for no pair with
\* that language, and nothing is stored outside the roster pairs.
C1_Correspondence ==
  \* (f @@ <<>> is f, held as a table: each entry is segmented once)
  LET init == [e \in 1..Len(data) |-> Initials(data[e].forms) @@ <<>>] @@ <<>>
      both(p) == {e \in 1..Len(data) :
                    p[1] \in DOMAIN init[e] /\ p[2] \in DOMAIN init[e]}
  IN  /\ DOMAIN correspondence_pairs \subseteq combinations
      /\ \A p \in combinations :
           LET counter == GetCounter(correspondence_pairs, p)
               seen == {<<init[e][p[1]], init[e][p[2]]>> : e \in both(p)}
           IN  \A ab \in DOMAIN counter \cup seen :
                 Get(counter, ab) =
                   Cardinality({e \in both(p) :
                                  /\ init[e][p[1]] = ab[1]
                                  /\ init[e][p[2]] = ab[2]})

\* The spec's example with a third language that has no form in the first
\* entry: 'tsa'/'tsi' then 'nda'/'nda'/'Nda,a'.
C1_Witness ==
  /\ Len(data) = 2
  /\ data[1].forms = MakeForms([otomian |-> <<"t", "s", "a">>,
                                trique |-> <<"t", "s", "i">>,
                                mazahua |-> Absent])
  /\ DOMAIN data[2].forms = {"otomian", "trique", "mazahua"}
  /\ correspondence_pairs[<<"otomian", "trique">>] =
       Incr(Incr(EmptyDict, << <<"t", "s">>, <<"t", "s">> >>),
            << <<"n", "d">>, <<"n", "d">> >>)
  /\ correspondence_pairs[<<"otomian", "mazahua">>] =
       Incr(EmptyDict, << <<"n", "d">>, <<"n", "d">> >>)

(***************************************************************************)
(* Potential cognates, lines 202-235, and their export, line 344           *)
(***************************************************************************)
\* The 0.4 of line 215: the float nearest 2/5, which is the float 2 / 5.
Threshold == <<2, 5>>

\* a > b for two quotients.
GreaterThan(a, b) == a[1] * b[2] > b[1] * a[2]

\* A slip: the threshold itself selected too.
selected_at_least(sim) == ~GreaterThan(Threshold, sim)

\* if sim > 0.4, line 215.
selected(sim) == GreaterThan(sim, Threshold)

\* The dict of lines 216-221; its third key is the language's name.
Candidate(gloss, pop_form, oto_lang, oto_form, sim) ==
  (oto_lang :> oto_form) @@
  [gloss |-> gloss, popoluca |-> pop_form, similarity |-> sim]

compared_langs == <<"zapotec_isthmus", "otomian", "proto_mixtec">>

\* The loop of lines 211-221 from language n on.
RECURSIVE CognatesCompare(_, _, _)
CognatesCompare(list, entry, n) ==
  IF n > Len(compared_langs) THEN list
  ELSE LET oto_lang == compared_langs[n]
           pop_form == entry.forms["popoluca"]
       IN  IF oto_lang \in DOMAIN entry.forms
           THEN LET oto_form == entry.forms[oto_lang]
                    sim == phonetic_similarity(pop_form, oto_form)
                IN  CognatesCompare(
                      IF selected(sim)
                      THEN Append(list, Candidate(entry.gloss, pop_form,
                                                  oto_lang, oto_form, sim))
                      ELSE list,
                      entry, n + 1)
           ELSE CognatesCompare(list, entry, n + 1)

\* The body of the loop of line 204.
CognatesAddEntry(list, entry) ==
  IF "popoluca" \in DOMAIN entry.forms
  THEN CognatesCompare(list, entry, 1)
  ELSE list

\* sorted(list, key=lambda x: -x['similarity']): stable, so x goes after
\* every item that scores at least as much.
RECURSIVE InsertSorted(_, _)
InsertSorted(list, x) ==
  IF list = <<>> THEN <<x>>
  ELSE IF GreaterThan(x.similarity, Head(list).similarity)
       THEN <<x>> \o list
       ELSE <<Head(list)>> \o InsertSorted(Tail(list), x)

RECURSIVE sorted(_)
sorted(list) ==
  IF list = <<>> THEN <<>>
  ELSE InsertSorted(sorted(SubSeq(list, 1, Len(list) - 1)), list[Len(list)])

ReportLimit == 15
ExportLimit == 20

\* The loop of lines 226-235 from item n on: the items that are printed.
RECURSIVE Display(_, _, _)
Display(list, n, seen_glosses) ==
  IF n > Len(list) THEN <<>>
  ELSE IF list[n].gloss \notin seen_glosses
       THEN <<list[n]>> \o Display(list, n + 1, seen_glosses \cup {list[n].gloss})
       ELSE Display(list, n + 1, seen_glosses)

CogMaxEntries == 2
CogEntries ==
  {[gloss |-> g,
    forms |-> MakeForms([popoluca |-> p, zapotec_isthmus |-> z,
                         otomian |-> o, proto_mixtec |-> m])] :
     g \in {"water", "fire"},
     p \in {Absent, <<"t", "s", "a", "n">>},
     z \in {Absent, <<"t", "s", "a", "i", "d">>, <<"t", "s", "a">>},
     o \in {None, <<"t", "s", "a", "n">>},
     m \in {<<"t", "a">>}}

InitCognates ==
  /\ pc = "cognates"
  /\ form1 = <<>>
  /\ form2 = <<>>
  /\ result = <<>>
  /\ NoData
  /\ NoTables

\* One round of the loop of line 204.
CognatesEntry ==
  /\ pc = "cognates"
  /\ Len(data) < CogMaxEntries
  /\ \E e \in CogEntries :
       /\ data' = Append(data, e)
       /\ potential_cognates' = CognatesAddEntry(potential_cognates, e)
  /\ idx' = idx + 1
  /\ UNCHANGED <<pc, form1, form2, result, item, phoneme_inventories,
                 correspondence_pairs, reported, exported,
                 proto_mixtec_entries, pm_to_daughter>>

\* Lines 225-235, after the last entry: the printed report.
CognatesDisplay ==
  /\ pc = "cognates"
  /\ reported' = Display(Slice(sorted(potential_cognates), 0, ReportLimit),
                         1, {})
  /\ pc' = "display_done"
  /\ UNCHANGED <<form1, form2, result, dataVars, phoneme_inventories,
                 correspondence_pairs, potential_cognates, exported,
                 proto_mixtec_entries, pm_to_daughter>>

\* Line 344: 'potential_cognates': potential_cognates[:20].
CognatesExport ==
  /\ pc = "display_done"
  /\ exported' = Slice(potential_cognates, 0, ExportLimit)
  /\ pc' = "done"
  /\ UNCHANGED <<form1, form2, result, dataVars, phoneme_inventories,
                 correspondence_pairs, potential_cognates, reported,
                 proto_mixtec_entries, pm_to_daughter>>

\* The loop that collects the candidates.
SpecCognates == InitCognates /\ [][CognatesEntry]_vars

\* The loop, then the report and the export.
NextReport == CognatesEntry \/ CognatesDisplay \/ CognatesExport

SpecReport == InitCognates /\ [][NextReport]_vars

\* The form pairs the loop compares: <<entry, language>>.
ComparedPairs ==
  {el \in (1..Len(data)) \X {compared_langs[n] : n \in 1..Len(compared_langs)} :
     /\ "popoluca" \in DOMAIN data[el[1]].forms
     /\ el[2] \in DOMAIN data[el[1]].forms}

PairScore(el) ==
  phonetic_similarity(data[el[1]].forms["popoluca"], data[el[1]].forms[el[2]])

\* The scores of the compared pairs (f @@ <<>> is f, held as a table).
PairScores == [el \in ComparedPairs |-> PairScore(el)] @@ <<>>

\* The candidate record of a compared pair, scored sim, is in the list.
IsCandidate(el, sim) ==
  \E n \in 1..Len(potential_cognates) :
    /\ potential_cognates[n].gloss = data[el[1]].gloss
    /\ potential_cognates[n].popoluca = data[el[1]].forms["popoluca"]
    /\ el[2] \in DOMAIN potential_cognates[n]
    /\ potential_cognates[n][el[2]] = data[el[1]].forms[el[2]]
    /\ potential_cognates[n].similarity = sim

\* C3 as stated: a compared pair is selected exactly when its score is at
\* least 0.4, a score of exactly 0.4 included.
C3_Claim ==
  LET score == PairScores
  IN  \A el \in ComparedPairs :
        IsCandidate(el, score[el]) <=> 5 * score[el][1] >= 2 * score[el][2]

\* C3 as amended: a compared pair is selected exactly when its score is
\* greater than 0.4; a pair scoring exactly 0.4 is not selected.  The list
\* holds one record for each selected pair and nothing else.
C3_Selected ==
  LET score == PairScores
  IN  /\ \A el \in ComparedPairs :
           IsCandidate(el, score[el]) <=> 5 * score[el][1] > 2 * score[el][2]
      /\ Len(potential_cognates) =
           Cardinality({el \in ComparedPairs :
                          5 * score[el][1] > 2 * score[el][2]})

\* One entry is compared three times: 'tsan'/'tsaid' scores 2/5 and is not
\* taken, 'tsan'/'tsan' scores 1 and is, 'tsan'/'ta' scores 1/4 and is not.
C3_Witness ==
  /\ Len(data) = 1
  /\ data[1].forms = [popoluca |-> <<"t", "s", "a", "n">>,
                      zapotec_isthmus |-> <<"t", "s", "a", "i", "d">>,
                      otomian |-> <<"t", "s", "a", "n">>,
                      proto_mixtec |-> <<"t", "a">>]
  /\ PairScore(<<1, "zapotec_isthmus">>) = <<2, 5>>
  /\ PairScore(<<1, "proto_mixtec">>) = <<1, 4>>
  /\ Len(potential_cognates) = 1
  /\ potential_cognates[1].similarity = <<1, 1>>
  /\ "otomian" \in DOMAIN potential_cognates[1]

\* The records of a list go by descending score.
Descending(list) ==
  \A n \in 1..(Len(list) - 1) :
    ~GreaterThan(list[n + 1].similarity, list[n].similarity)

\* A list holds at most one record per gloss.
OnePerGloss(list) ==
  \A n \in 1..Len(list) : \A k \in 1..Len(list) :
    list[n].gloss = list[k].gloss => n = k

\* The glosses that have a candidate.
CandidateGlosses ==
  {potential_cognates[n].gloss : n \in 1..Len(potential_cognates)}

\* C4: the reported list and the exported list are both by descending
\* score with at most one record per gloss, de-duplicated before they are
\* cut to their length K: each holds min(K, glosses with a candidate) records.
C4_Claim ==
  pc = "done" =>
    /\ Descending(reported) /\ OnePerGloss(reported)
    /\ Len(reported) = Min(ReportLimit, Cardinality(CandidateGlosses))
    /\ Descending(exported) /\ OnePerGloss(exported)
    /\ Len(exported) = Min(ExportLimit, Cardinality(CandidateGlosses))

(***************************************************************************)
(* The Positional Alignment Engine, lines 244-252 and 273-281              *)
(***************************************************************************)
\* dict.get(key, ''), lines 250-251.
GetForm(forms, key) == IF key \in DOMAIN forms THEN forms[key] ELSE <<>>

\* The dict of lines 247-252.
ProtoEntry(entry) ==
  [gloss |-> entry.gloss,
   proto_form |-> entry.forms["proto_mixtec"],
   trique |-> GetForm(entry.forms, "trique"),
   mixtec_daughter |-> GetForm(entry.forms, "Unnamed: 5")]

\* The 3 of line 279.
AlignLimit == 3

\* The loop of lines 279-281 from index i on, over pm_segs[:stop].
RECURSIVE AlignFrom(_, _, _, _, _)
AlignFrom(table, pm_segs, da_segs, i, stop) ==
  IF i >= stop THEN table
  ELSE AlignFrom(IF i < Len(da_segs)
                 THEN Incr2(table, pm_segs[i + 1], da_segs[i + 1])
                 ELSE table,
                 pm_segs, da_segs, i + 1, stop)

\* A slip: every position of the source aligned, not the first three.
AlignAddEntry_all(table, entry) ==
  LET pm_segs == extract_phonemes(entry.proto_form)
      da_segs == extract_phonemes(entry.mixtec_daughter)
  IN  AlignFrom(table, pm_segs, da_segs, 0, Len(pm_segs))

\* The body of the loop of line 274.
AlignAddEntry(table, entry) ==
  LET pm_segs == extract_phonemes(entry.proto_form)
      da_segs == extract_phonemes(entry.mixtec_daughter)
  IN  AlignFrom(table, pm_segs, da_segs, 0, Min(AlignLimit, Len(pm_segs)))

AlignMaxEntries == 2
AlignEntries ==
  {[gloss |-> "water",
    forms |-> [x \in {"proto_mixtec", "Unnamed: 5"} |->
                 IF x = "proto_mixtec" THEN p ELSE d]] :
     p \in {None, <<"t", "s", "a">>, <<"t", "s", "a", "t", "s", "a">>,
            <<"*", "t", "s", ",", "a">>},
     d \in {None, <<"s", "a">>, <<"s", "a", "s", "a">>}}
  \cup
  {[gloss |-> "fire",
    forms |-> [x \in k |-> <<"s", "a">>]] :
     k \in {{}, {"Unnamed: 5"}, {"proto_mixtec"}}}

InitAlignment ==
  /\ pc = "proto_build"
  /\ form1 = <<>>
  /\ form2 = <<>>
  /\ result = <<>>
  /\ NoData
  /\ NoTables

\* One round of the loop of line 245.
ProtoBuildEntry ==
  /\ pc = "proto_build"
  /\ Len(data) < AlignMaxEntries
  /\ \E e \in AlignEntries :
       /\ data' = Append(data, e)
       /\ proto_mixtec_entries' =
            IF "proto_mixtec" \in DOMAIN e.forms
            THEN Append(proto_mixtec_entries, ProtoEntry(e))
            ELSE proto_mixtec_entries
  /\ UNCHANGED <<pc, form1, form2, result, idx, item, phoneme_inventories,
                 correspondence_pairs, potential_cognates, reported, exported,
                 pm_to_daughter>>

\* The loop of line 245 ends; line 273.
ProtoBuildDone ==
  /\ pc = "proto_build"
  /\ pc' = "align"
  /\ UNCHANGED <<form1, form2, result, dataVars, tableVars>>

\* One round of the loop of line 274; idx counts the rounds done.
AlignEntry ==
  /\ pc = "align"
  /\ idx < Len(proto_mixtec_entries)
  /\ pm_to_daughter' =
       AlignAddEntry(pm_to_daughter, proto_mixtec_entries[idx + 1])
  /\ idx' = idx + 1
  /\ UNCHANGED <<pc, form1, form2, result, data, item, phoneme_inventories,
                 correspondence_pairs, potential_cognates, reported, exported,
                 proto_mixtec_entries>>

NextAlignment == ProtoBuildEntry \/ ProtoBuildDone \/ AlignEntry

SpecAlignment == InitAlignment /\ [][NextAlignment]_vars

\* The entries of data that have a reconstructed form, in order.
Reconstructed ==
  SelectSeq(data, LAMBDA e : "proto_mixtec" \in DOMAIN e.forms)

\* The source and daughter segments of the first n of them (f @@ <<>> is f,
\* held as a table).
AlignedSegments(n) ==
  [k \in 1..n |->
     [source |-> extract_phonemes(Reconstructed[k].forms["proto_mixtec"]),
      daughter |-> IF "Unnamed: 5" \in DOMAIN Reconstructed[k].forms
                   THEN extract_phonemes(Reconstructed[k].forms["Unnamed: 5"])
                   ELSE <<>>]] @@ <<>>

\* C7: after any number of rounds, the table holds exactly the observations
\* source[i] -> daughter[i] of the entries handled so far for
\* 0 <= i < min(3, len(source), len(daughter)), each counted once, and
\* nothing for any other index or for an entry without a reconstructed form.
C7_Alignment ==
  LET segs == AlignedSegments(idx)
      obs  == {ki \in (1..idx) \X (0..2) :
                 /\ ki[2] < Len(segs[ki[1]].source)
                 /\ ki[2] < Len(segs[ki[1]].daughter)}
      src(ki) == segs[ki[1]].source[ki[2] + 1]
      tgt(ki) == segs[ki[1]].daughter[ki[2] + 1]
  IN  /\ pc = "align" => Len(proto_mixtec_entries) = Len(Reconstructed)
      /\ DOMAIN pm_to_daughter = {src(ki) : ki \in obs}
      /\ \A s \in DOMAIN pm_to_daughter :
           /\ DOMAIN pm_to_daughter[s] = {tgt(ki) : ki \in {x \in obs : src(x) = s}}
           /\ \A t \in DOMAIN pm_to_daughter[s] :
                pm_to_daughter[s][t] =
                  Cardinality({ki \in obs : src(ki) = s /\ tgt(ki) = t})

\* 'tsa' against 'sa' (ts -> s, a -> a) and 'tsatsa' against 'sasa', whose
\* fourth pair a -> a is not counted: ts -> s three times, a -> a twice.
C7_Witness ==
  /\ pc = "align"
  /\ idx = 2
  /\ Len(data) = 2
  /\ data[1].forms = [x \in {"proto_mixtec", "Unnamed: 5"} |->
                        IF x = "proto_mixtec" THEN <<"t", "s", "a">>
                        ELSE <<"s", "a">>]
  /\ pm_to_daughter = (<<"t", "s">> :> (<<"s">> :> 3)) @@
                      (<<"a">> :> (<<"a">> :> 2))

=============================================================================
